---- MODULE Spec2Model ----
(***************************************************************************)
(* A model of src/main.py: a SHA-256 implementation whose running hash     *)
(* state is the module-level list H, seeded into a..h at the start of      *)
(* every block and updated in place, lane by lane, at the end of it.       *)
(*                                                                         *)
(* Representation.  TLC's integers are 32-bit signed, so a 32-bit unsigned *)
(* word is the pair <<hi, lo>> of its 16-bit halves, and a Python int that *)
(* may exceed 32 bits before it is masked keeps the excess in hi.  A byte  *)
(* is a number in 0..255, a bytes object a sequence of bytes, a str a      *)
(* sequence of code points.  A length that may exceed 2^31 (len(message)   *)
(* and original_bit_length) is a little-endian sequence of base-65536      *)
(* limbs with no leading zero limb (<<>> is 0).                            *)
(***************************************************************************)
EXTENDS Integers, Sequences, FiniteSets, TLC

(***************************************************************************)
(* Python's bitwise operators on non-negative ints                         *)
(***************************************************************************)
RECURSIVE BitOp(_, _, _, _)
BitOp(op, x, y, n) ==
    IF n = 0 THEN 0
    ELSE LET a == x % 2
             b == y % 2
             r == CASE op = "xor" -> (a + b) % 2
                    [] op = "and" -> a * b
                    [] op = "or"  -> IF a + b > 0 THEN 1 ELSE 0
         IN  r + 2 * BitOp(op, x \div 2, y \div 2, n - 1)

XorTab == [x \in 0..15 |-> [y \in 0..15 |-> BitOp("xor", x, y, 4)]]

AndTab == [x \in 0..15 |-> [y \in 0..15 |-> BitOp("and", x, y, 4)]]

OrTab == [x \in 0..15 |-> [y \in 0..15 |-> BitOp("or", x, y, 4)]]

\* a table applied nibble by nibble to two 16-bit values
Bitwise16(tab, x, y) ==
      tab[x \div 4096][y \div 4096] * 4096
    + tab[(x \div 256) % 16][(y \div 256) % 16] * 256
    + tab[(x \div 16) % 16][(y \div 16) % 16] * 16
    + tab[x % 16][y % 16]

\* the 32-bit words, and the ints an unmasked sum can reach
Word == (0..65535) \X (0..65535)

Int32Up == Nat \X (0..65535)

\* x ^ y
Xor[x \in Word, y \in Word] ==
    <<Bitwise16(XorTab, x[1], y[1]), Bitwise16(XorTab, x[2], y[2])>>

\* x & y
And[x \in Word, y \in Word] ==
    <<Bitwise16(AndTab, x[1], y[1]), Bitwise16(AndTab, x[2], y[2])>>

\* x | y
Or[x \in Word, y \in Word] ==
    <<Bitwise16(OrTab, x[1], y[1]), Bitwise16(OrTab, x[2], y[2])>>

\* ~x, as it is used: under a following "& g" with g a 32-bit word only the
\* low 32 bits of Python's -x-1 count, and those are the complement of x
Not[x \in Word] == <<65535 - x[1], 65535 - x[2]>>

\* x + y on Python's unbounded ints: the carry out of bit 31 stays in hi
Add[x \in Int32Up, y \in Int32Up] ==
    <<x[1] + y[1] + ((x[2] + y[2]) \div 65536), (x[2] + y[2]) % 65536>>

\* x & 0xFFFFFFFF
Mask32[x \in Int32Up] == <<x[1] % 65536, x[2]>>

\* x >> n for a 32-bit x
Shr[x \in Word, n \in 1..31] ==
    IF n < 16
    THEN <<x[1] \div (2 ^ n), (x[2] \div (2 ^ n)) + (x[1] % (2 ^ n)) * (2 ^ (16 - n))>>
    ELSE <<0, x[1] \div (2 ^ (n - 16))>>

\* (x << n) & 0xFFFFFFFF for a 32-bit x
ShlMask32[x \in Word, n \in 1..31] ==
    IF n < 16
    THEN <<(x[1] % (2 ^ (16 - n))) * (2 ^ n) + (x[2] \div (2 ^ (16 - n))),
           (x[2] % (2 ^ (16 - n))) * (2 ^ n)>>
    ELSE <<(x[2] % (2 ^ (32 - n))) * (2 ^ (n - 16)), 0>>

\* ((value >> bits) | (value << (32 - bits))) & 0xFFFFFFFF; the mask
\* distributes over |, and value >> bits is below 2^32 already
right_rotate(value, bits) == Or[Shr[value, bits], ShlMask32[value, 32 - bits]]

(***************************************************************************)
(* The module-level constants                                              *)
(***************************************************************************)
K ==
    << <<\h428a, \h2f98>>, <<\h7137, \h4491>>, <<\hb5c0, \hfbcf>>, <<\he9b5, \hdba5>>,
       <<\h3956, \hc25b>>, <<\h59f1, \h11f1>>, <<\h923f, \h82a4>>, <<\hab1c, \h5ed5>>,
       <<\hd807, \haa98>>, <<\h1283, \h5b01>>, <<\h2431, \h85be>>, <<\h550c, \h7dc3>>,
       <<\h72be, \h5d74>>, <<\h80de, \hb1fe>>, <<\h9bdc, \h06a7>>, <<\hc19b, \hf174>>,
       <<\he49b, \h69c1>>, <<\hefbe, \h4786>>, <<\h0fc1, \h9dc6>>, <<\h240c, \ha1cc>>,
       <<\h2de9, \h2c6f>>, <<\h4a74, \h84aa>>, <<\h5cb0, \ha9dc>>, <<\h76f9, \h88da>>,
       <<\h983e, \h5152>>, <<\ha831, \hc66d>>, <<\hb003, \h27c8>>, <<\hbf59, \h7fc7>>,
       <<\hc6e0, \h0bf3>>, <<\hd5a7, \h9147>>, <<\h06ca, \h6351>>, <<\h1429, \h2967>>,
       <<\h27b7, \h0a85>>, <<\h2e1b, \h2138>>, <<\h4d2c, \h6dfc>>, <<\h5338, \h0d13>>,
       <<\h650a, \h7354>>, <<\h766a, \h0abb>>, <<\h81c2, \hc92e>>, <<\h9272, \h2c85>>,
       <<\ha2bf, \he8a1>>, <<\ha81a, \h664b>>, <<\hc24b, \h8b70>>, <<\hc76c, \h51a3>>,
       <<\hd192, \he819>>, <<\hd699, \h0624>>, <<\hf40e, \h3585>>, <<\h106a, \ha070>>,
       <<\h19a4, \hc116>>, <<\h1e37, \h6c08>>, <<\h2748, \h774c>>, <<\h34b0, \hbcb5>>,
       <<\h391c, \h0cb3>>, <<\h4ed8, \haa4a>>, <<\h5b9c, \hca4f>>, <<\h682e, \h6ff3>>,
       <<\h748f, \h82ee>>, <<\h78a5, \h636f>>, <<\h84c8, \h7814>>, <<\h8cc7, \h0208>>,
       <<\h90be, \hfffa>>, <<\ha450, \h6ceb>>, <<\hbef9, \ha3f7>>, <<\hc671, \h78f2>> >>

\* the value the module-level list H is bound to when the module is loaded
H_initial ==
    << <<\h6a09, \he667>>, <<\hbb67, \hae85>>, <<\h3c6e, \hf372>>, <<\ha54f, \hf53a>>,
       <<\h510e, \h527f>>, <<\h9b05, \h688c>>, <<\h1f83, \hd9ab>>, <<\h5be0, \hcd19>> >>

(***************************************************************************)
(* Conversions                                                             *)
(***************************************************************************)
\* str.encode(): UTF-8 of one code point (below 0x10000, no surrogates)
EncodeChar(c) ==
    IF c < 128 THEN <<c>>
    ELSE IF c < 2048 THEN <<192 + (c \div 64), 128 + (c % 64)>>
    ELSE <<224 + (c \div 4096), 128 + ((c \div 64) % 64), 128 + (c % 64)>>

RECURSIVE Encode(_)
Encode(s) == IF s = <<>> THEN <<>> ELSE EncodeChar(Head(s)) \o Encode(Tail(s))

\* a non-negative int below 2^31 as limbs
RECURSIVE BigOfNat(_)
BigOfNat(n) == IF n = 0 THEN <<>> ELSE <<n % 65536>> \o BigOfNat(n \div 65536)

\* b + n for limbs b and 0 <= n < 2^31 - 2^16
RECURSIVE BigAddNat(_, _)
BigAddNat(b, n) ==
    IF n = 0 THEN b
    ELSE IF b = <<>> THEN BigOfNat(n)
    ELSE <<(Head(b) + n) % 65536>> \o BigAddNat(Tail(b), (Head(b) + n) \div 65536)

\* b * m + carry for limbs b and a small m
RECURSIVE BigMulNat(_, _, _)
BigMulNat(b, m, carry) ==
    IF b = <<>> THEN BigOfNat(carry)
    ELSE <<(Head(b) * m + carry) % 65536>>
         \o BigMulNat(Tail(b), m, (Head(b) * m + carry) \div 65536)

\* b % m for limbs b and m a divisor of 65536
BigModNat(b, m) == IF b = <<>> THEN 0 ELSE Head(b) % m

\* the bytes of limbs b, least significant first, without leading zero bytes
RECURSIVE BigBytesLE(_)
BigBytesLE(b) ==
    IF b = <<>> THEN <<>>
    ELSE IF Len(b) = 1 /\ b[1] < 256 THEN <<b[1]>>
    ELSE <<Head(b) % 256, Head(b) \div 256>> \o BigBytesLE(Tail(b))

Reverse(s) == [i \in 1..Len(s) |-> s[Len(s) + 1 - i]]

\* what a call that may raise comes to: the bytes it gives, or the error
Gives(bs) == [error |-> "", bytes |-> bs]

Raises(e) == [error |-> e, bytes |-> <<>>]

\* a faulty line 81, byteorder='little': the layout of C6 must tell it apart
to_bytes_little(b, length) ==
    LET le == BigBytesLE(b)
    IN  IF Len(le) > length THEN Raises("OverflowError")
        ELSE Gives(le \o [i \in 1..(length - Len(le)) |-> 0])

\* a faulty line 81 that keeps the low `length` bytes of a value too big, as
\* (value % 2^64).to_bytes(8, 'big') would: C7 must tell it apart
to_bytes_truncated(b, length) ==
    LET le == BigBytesLE(b) \o [i \in 1..length |-> 0]
    IN  Gives(Reverse(SubSeq(le, 1, length)))

\* int.to_bytes(length, byteorder='big'): the value's bytes, zero-filled on
\* the left, or OverflowError ("int too big to convert") when it needs more
to_bytes(b, length) ==
    LET le == BigBytesLE(b)
    IN  IF Len(le) > length THEN Raises("OverflowError")
        ELSE Gives([i \in 1..(length - Len(le)) |-> 0] \o Reverse(le))

\* int.from_bytes(chunk[i:i + 4], byteorder='big'), i counted from 0
from_bytes(chunk, i) ==
    <<chunk[i + 1] * 256 + chunk[i + 2], chunk[i + 3] * 256 + chunk[i + 4]>>

HexDigit == <<"0", "1", "2", "3", "4", "5", "6", "7",
              "8", "9", "a", "b", "c", "d", "e", "f">>

\* the hex digits of n, at least width of them, as a sequence of characters
RECURSIVE Hex(_, _)
Hex(n, width) ==
    IF n = 0 /\ width <= 0 THEN <<>>
    ELSE Append(Hex(n \div 16, width - 1), HexDigit[(n % 16) + 1])

\* f'{value:08x}': lowercase hex, zero-filled to 8 digits, longer when the
\* value needs more
Format08x(value) == Hex(value[1], 4) \o Hex(value[2], 4)

\* line 142: ''.join(f'{value:08x}' for value in words)
RECURSIVE Join(_)
Join(words) == IF words = <<>> THEN <<>> ELSE Format08x(Head(words)) \o Join(Tail(words))

(***************************************************************************)
(* The body of sha256's loop over the chunks                               *)
(***************************************************************************)
\* the element of a one-element set.  The({F(x) : x \in {e}}) is F(e) with e
\* computed once, as a loop's state is computed once before the next iteration
\* reads it, however often that iteration reads it
The(S) == CHOOSE r \in S : TRUE

\* line 95, after s0 =
SmallSigma0(x) == Xor[Xor[right_rotate(x, 7), right_rotate(x, 18)], Shr[x, 3]]

\* line 96, after s1 =
SmallSigma1(x) == Xor[Xor[right_rotate(x, 17), right_rotate(x, 19)], Shr[x, 10]]

\* line 97's sum of four, masked
Sum4Mask(p, q, r, s) == Mask32[Add[Add[Add[p, q], r], s]]

\* lines 95-97: one iteration of "for i in range(16, 64)", i = len(w)
ExtendOnce(w) ==
    LET i == Len(w)
        s0 == SmallSigma0(w[i - 15 + 1])
        s1 == SmallSigma1(w[i - 2 + 1])
    IN  Append(w, Sum4Mask(w[i - 16 + 1], s0, w[i - 7 + 1], s1))

\* n iterations of lines 95-97 in a row, the first n \div 2 and then the rest
RECURSIVE Extend(_, _)
Extend(w, n) ==
    IF n = 0 THEN w
    ELSE IF n = 1 THEN ExtendOnce(w)
    ELSE The({Extend(x, n - (n \div 2)) : x \in {Extend(w, n \div 2)}})

\* lines 89-97: the 64-word schedule of one chunk, the 16 words of line 89
\* and the 48 of range(16, 64)
MessageSchedule(chunk) ==
    The({Extend(x, 64 - 16) : x \in {[j \in 1..16 |-> from_bytes(chunk, 4 * (j - 1))]}})

\* line 107, after S1 =
BigSigma1(e) == Xor[Xor[right_rotate(e, 6), right_rotate(e, 11)], right_rotate(e, 25)]

\* line 109, after ch =
Choice(e, f, g) == Xor[And[e, f], And[Not[e], g]]

\* line 113, after S0 =
BigSigma0(a) == Xor[Xor[right_rotate(a, 2), right_rotate(a, 13)], right_rotate(a, 22)]

\* line 115, after maj =
Majority(a, b, c) == Xor[Xor[And[a, b], And[a, c]], And[b, c]]

\* lines 107-127: one round; v is <<a, b, c, d, e, f, g, h>>
Round(v, w, i) ==
    LET a == v[1]
        b == v[2]
        c == v[3]
        d == v[4]
        e == v[5]
        f == v[6]
        g == v[7]
        h == v[8]
        S1 == BigSigma1(e)
        ch == Choice(e, f, g)
        temp1 == Mask32[Add[Add[Add[Add[h, S1], ch], K[i + 1]], w[i + 1]]]
        S0 == BigSigma0(a)
        maj == Majority(a, b, c)
        temp2 == Mask32[Add[S0, maj]]
    IN  <<Mask32[Add[temp1, temp2]], a, b, c, Mask32[Add[d, temp1]], e, f, g>>

\* n iterations of lines 104-127 in a row, the first n \div 2 and then the
\* rest, from the loop state s = <<<<a, ..., h>>, i>> to the one they end in
RECURSIVE RoundsFrom(_, _, _)
RoundsFrom(s, w, n) ==
    IF n = 0 THEN s
    ELSE IF n = 1 THEN <<Round(s[1], w, s[2]), s[2] + 1>>
    ELSE The({RoundsFrom(x, w, n - (n \div 2)) : x \in {RoundsFrom(s, w, n \div 2)}})

\* lines 104-127: a..h after the 64 rounds of range(64)
Rounds(v, w) == The({RoundsFrom(<<v, 0>>, x, 64)[1] : x \in {w}})

\* faulty lines 131-138, the mask forgotten: C8 must tell it apart
LaneSum_Unmasked(h, x) == Add[h, x]

\* lines 131-138, one lane: (H[lane] + x) & 0xFFFFFFFF
LaneSum(h, x) == Mask32[Add[h, x]]

\* a faulty line 85, range(0, len(message) - 64, 64), that leaves the last
\* chunk out: C9 must tell it apart
Chunks_SkipLast(m) ==
    [n \in 1..((Len(m) + 63) \div 64 - 1) |->
        SubSeq(m, 64 * (n - 1) + 1, IF 64 * n < Len(m) THEN 64 * n ELSE Len(m))]

\* line 85: [message[i:i + 64] for i in range(0, len(message), 64)]
Chunks(m) ==
    [n \in 1..((Len(m) + 63) \div 64) |->
        SubSeq(m, 64 * (n - 1) + 1, IF 64 * n < Len(m) THEN 64 * n ELSE Len(m))]

(***************************************************************************)
(* Inputs.  An input is [kind, lead, data]: a str (data its code points)   *)
(* or a bytes object (data its bytes).  lead is 0 (<<>>) for an input that *)
(* is written out in full; an input too long to write out is `lead` bytes  *)
(* whose values are left out, followed by data.  sha256 reads the values   *)
(* of a message's bytes only from line 85 on.                              *)
(***************************************************************************)
Str(s) == [kind |-> "str", lead |-> <<>>, data |-> s]

Bytes(s) == [kind |-> "bytes", lead |-> <<>>, data |-> s]

\* line 145: message = "hello world"
HelloWorld == Str(<<104, 101, 108, 108, 111, 32, 119, 111, 114, 108, 100>>)

Abc == Bytes(<<97, 98, 99>>)

Fill(n, b) == Bytes([i \in 1..n |-> b])

\* 2^61 + n bytes, the first 2^61 left out: the shortest inputs whose
\* bit-length needs more than 64 bits
Huge(n) == [kind |-> "bytes", lead |-> <<0, 0, 0, 8192>>, data |-> [i \in 1..n |-> 0]]

\* lines 66-67: the bytes of an input
EncodedData(m) == IF m.kind = "str" THEN Encode(m.data) ELSE m.data

\* len(message) of a message of `lead` left-out bytes followed by msg
LenOf(lead, msg) == BigAddNat(lead, Len(msg))

\* len(message) * 8
BitLength(lead, msg) == BigMulNat(LenOf(lead, msg), 8, 0)

\* line 70: original_bit_length, taken before line 73 appends the marker
OriginalBitLength(m) == BitLength(m.lead, EncodedData(m))

\* a faulty line 77, (len(message) * 8) % 512 != 0, that leaves no room for
\* the length field: C5 must tell it apart
NeedsZero_NoRoom(lead, msg) == BigModNat(BitLength(lead, msg), 512) # 0

\* a faulty line 77, len(message) % 512 != 448, bytes taken for bits: C10's
\* bound on the padding loop must tell it apart
NeedsZero_Bytes(lead, msg) == BigModNat(LenOf(lead, msg), 512) # 448

\* line 77: (len(message) * 8) % 512 != 448
NeedsZero(lead, msg) == BigModNat(BitLength(lead, msg), 512) # 448

\* line 100: a, b, c, d, e, f, g, h = H
Unpack(h) == <<h[1], h[2], h[3], h[4], h[5], h[6], h[7], h[8]>>

\* a sequence of characters as a string
RECURSIVE AsString(_)
AsString(cs) == IF cs = <<>> THEN "" ELSE Head(cs) \o AsString(Tail(cs))

\* before a thread's first call
NoInput == [kind |-> "none", lead |-> <<>>, data |-> <<>>]

NoResult == [outcome |-> "none", value |-> <<>>, error |-> ""]

\* sha256 returned the digest d
Returned(d) == [outcome |-> "return", value |-> d, error |-> ""]

\* sha256 raised e
Raised(e) == [outcome |-> "raise", value |-> <<>>, error |-> e]

NoCount == [zeros |-> 0, blocks |-> 0, words |-> 0, rounds |-> 0]

(***************************************************************************)
(* sha256(m) run on its own on a list H that holds h: lines 66-142 with no *)
(* other call before or during it                                          *)
(***************************************************************************)
RECURSIVE ZeroPadded(_, _)
ZeroPadded(lead, msg) ==
    IF NeedsZero(lead, msg) THEN ZeroPadded(lead, Append(msg, 0)) ELSE msg

RECURSIVE Compressed(_, _, _)
Compressed(h, cs, n) ==
    IF n > Len(cs) THEN h
    ELSE The({Compressed(x, cs, n + 1) :
                 x \in {[i \in 1..8 |-> LaneSum(h[i], v[i])] :
                           v \in {Rounds(Unpack(h), MessageSchedule(cs[n]))}}})

RunAlone(m, h) ==
    LET marked == Append(EncodedData(m), 128)
        length == to_bytes(OriginalBitLength(m), 8)
    IN  IF length.error # "" THEN Raised(length.error)
        ELSE Returned(Join(Compressed(h, Chunks(ZeroPadded(m.lead, marked) \o length.bytes), 1)))

(***************************************************************************)
(* Bounds                                                                  *)
(***************************************************************************)
\* calls the main thread makes after the module is loaded
MaxCalls == 2

\* the longest input of the padding specification
MaxLen == 121

Threads == {1, 2}

\* the inputs of the calls made after the module is loaded
Inputs == {HelloWorld, Abc, Bytes(<<>>), Fill(56, 97), Huge(3)}

\* the inputs of the padding specification
PadInputs == {Fill(n, b) : n \in 0..MaxLen, b \in {0, 97, 128}} \cup {Huge(9)}

\* the inputs of the two threads
ThreadInputs == {Fill(54, 97), Fill(55, 98), Huge(55)}

(***************************************************************************)
(* State                                                                   *)
(***************************************************************************)
VARIABLES
    H,                    \* the module-level list (lines 34-37)
    pc,                   \* pc[t]: where thread t is in sha256, "idle" outside it
    arg,                  \* arg[t]: the input of t's current or last call
    lead,                 \* lead[t]: the left-out bytes in front of message[t]
    message,              \* sha256's local message
    original_bit_length,  \* sha256's local original_bit_length
    chunks,               \* sha256's local chunks
    ci,                   \* the position in chunks of the loop variable chunk
    w,                    \* sha256's local w
    regs,                 \* sha256's locals <<a, b, c, d, e, f, g, h>>
    lane,                 \* the next of lines 131-138 to run, from 0
    ret,                  \* what t's last call returned or raised
    loaded,               \* the module's own call (line 146) has returned
    ncalls,               \* ncalls[t]: the calls t has made since
    count,                \* count[t]: the loop iterations of t's current call
    trail,                \* trail[t]: per block of t's current call, what was
                          \* scheduled, the a..h it started from, and H after it
    log                   \* <<message bytes, result>> of every completed call

vars == <<H, pc, arg, lead, message, original_bit_length, chunks, ci, w, regs,
          lane, ret, loaded, ncalls, count, trail, log>>

locals == <<lead, message, original_bit_length, chunks, ci, w, regs, lane>>

Init ==
    /\ H = H_initial
    /\ pc = [t \in Threads |-> "idle"]
    /\ arg = [t \in Threads |-> NoInput]
    /\ lead = [t \in Threads |-> <<>>]
    /\ message = [t \in Threads |-> <<>>]
    /\ original_bit_length = [t \in Threads |-> <<>>]
    /\ chunks = [t \in Threads |-> <<>>]
    /\ ci = [t \in Threads |-> 0]
    /\ w = [t \in Threads |-> <<>>]
    /\ regs = [t \in Threads |-> <<>>]
    /\ lane = [t \in Threads |-> 0]
    /\ ret = [t \in Threads |-> NoResult]
    /\ loaded = FALSE
    /\ ncalls = [t \in Threads |-> 0]
    /\ count = [t \in Threads |-> NoCount]
    /\ trail = [t \in Threads |-> <<>>]
    /\ log = {}

(***************************************************************************)
(* sha256, step by step                                                    *)
(***************************************************************************)
\* lines 66-73: thread t enters sha256(m), up to the first test of line 77
Call(t, m) ==
    /\ pc[t] = "idle"
    /\ pc' = [pc EXCEPT ![t] = "pad"]
    /\ arg' = [arg EXCEPT ![t] = m]
    /\ lead' = [lead EXCEPT ![t] = m.lead]
    /\ message' = [message EXCEPT ![t] = Append(EncodedData(m), 128)]
    /\ original_bit_length' = [original_bit_length EXCEPT ![t] = OriginalBitLength(m)]
    /\ chunks' = [chunks EXCEPT ![t] = <<>>]
    /\ ci' = [ci EXCEPT ![t] = 0]
    /\ w' = [w EXCEPT ![t] = <<>>]
    /\ regs' = [regs EXCEPT ![t] = <<>>]
    /\ lane' = [lane EXCEPT ![t] = 0]
    /\ ret' = [ret EXCEPT ![t] = NoResult]
    /\ count' = [count EXCEPT ![t] = NoCount]
    /\ trail' = [trail EXCEPT ![t] = <<>>]
    /\ UNCHANGED <<H, log>>

\* lines 77-78: one iteration of the while loop
PadZero(t) ==
    /\ pc[t] = "pad"
    /\ NeedsZero(lead[t], message[t])
    /\ message' = [message EXCEPT ![t] = Append(@, 0)]
    /\ count' = [count EXCEPT ![t].zeros = @ + 1]
    /\ UNCHANGED <<H, pc, arg, lead, original_bit_length, chunks, ci, w, regs,
                   lane, ret, loaded, ncalls, trail, log>>

\* line 77 false, line 81: the length is appended
AppendLength(t) ==
    /\ pc[t] = "pad"
    /\ ~NeedsZero(lead[t], message[t])
    /\ to_bytes(original_bit_length[t], 8).error = ""
    /\ message' = [message EXCEPT ![t] = @ \o to_bytes(original_bit_length[t], 8).bytes]
    /\ pc' = [pc EXCEPT ![t] = "split"]
    /\ UNCHANGED <<H, arg, lead, original_bit_length, chunks, ci, w, regs,
                   lane, ret, loaded, ncalls, count, trail, log>>

\* line 77 false, line 81: to_bytes raises and the call ends
Overflow(t) ==
    /\ pc[t] = "pad"
    /\ ~NeedsZero(lead[t], message[t])
    /\ to_bytes(original_bit_length[t], 8).error # ""
    /\ pc' = [pc EXCEPT ![t] = "idle"]
    /\ ret' = [ret EXCEPT ![t] = Raised(to_bytes(original_bit_length[t], 8).error)]
    /\ loaded' = TRUE
    /\ log' = log \cup {<<[lead |-> arg[t].lead, data |-> EncodedData(arg[t])],
                          ret'[t]>>}
    /\ UNCHANGED <<H, arg, locals, ncalls, count, trail>>

\* line 85, and line 87 taking the first chunk
Split(t) ==
    /\ pc[t] = "split"
    /\ chunks' = [chunks EXCEPT ![t] = Chunks(message[t])]
    /\ ci' = [ci EXCEPT ![t] = 1]
    /\ pc' = [pc EXCEPT ![t] = IF Chunks(message[t]) = <<>> THEN "serialize"
                                ELSE "schedule"]
    /\ UNCHANGED <<H, arg, lead, message, original_bit_length, w, regs, lane,
                   ret, loaded, ncalls, count, trail, log>>

\* lines 89-97: the schedule of the current chunk
Schedule(t) ==
    /\ pc[t] = "schedule"
    /\ w' = [w EXCEPT ![t] = MessageSchedule(chunks[t][ci[t]])]
    /\ pc' = [pc EXCEPT ![t] = "seed"]
    /\ count' = [count EXCEPT ![t].blocks = @ + 1,
                              ![t].words = @ + Len(w'[t]) - 16]
    /\ trail' = [trail EXCEPT ![t] =
                    Append(@, [chunk |-> chunks[t][ci[t]], seed |-> <<>>, out |-> <<>>])]
    /\ UNCHANGED <<H, arg, lead, message, original_bit_length, chunks, ci, regs,
                   lane, ret, loaded, ncalls, log>>

\* line 100: a..h are read from the module-level H
Seed(t) ==
    /\ pc[t] = "seed"
    /\ regs' = [regs EXCEPT ![t] = Unpack(H)]
    /\ pc' = [pc EXCEPT ![t] = "rounds"]
    /\ trail' = [trail EXCEPT ![t][Len(trail[t])].seed = regs'[t]]
    /\ UNCHANGED <<H, arg, lead, message, original_bit_length, chunks, ci, w,
                   lane, ret, loaded, ncalls, count, log>>

\* lines 104-127: the 64 rounds, on locals only
Compress(t) ==
    /\ pc[t] = "rounds"
    /\ LET last == RoundsFrom(<<regs[t], 0>>, w[t], 64)
       IN  /\ regs' = [regs EXCEPT ![t] = last[1]]
           /\ count' = [count EXCEPT ![t].rounds = @ + last[2]]
    /\ lane' = [lane EXCEPT ![t] = 0]
    /\ pc' = [pc EXCEPT ![t] = "update"]
    /\ UNCHANGED <<H, arg, lead, message, original_bit_length, chunks, ci, w,
                   ret, loaded, ncalls, trail, log>>

\* one of lines 131-138: H[lane] = (H[lane] + x) & 0xFFFFFFFF, and after the
\* last of them line 87 taking the next chunk or leaving the loop
UpdateLane(t) ==
    /\ pc[t] = "update"
    /\ H' = [H EXCEPT ![lane[t] + 1] = LaneSum(@, regs[t][lane[t] + 1])]
    /\ IF lane[t] < 7
       THEN /\ lane' = [lane EXCEPT ![t] = @ + 1]
            /\ UNCHANGED <<pc, ci, trail>>
       ELSE /\ lane' = [lane EXCEPT ![t] = 0]
            /\ trail' = [trail EXCEPT ![t][Len(trail[t])].out = H']
            /\ ci' = [ci EXCEPT ![t] = @ + 1]
            /\ pc' = [pc EXCEPT ![t] = IF ci[t] < Len(chunks[t]) THEN "schedule"
                                        ELSE "serialize"]
    /\ UNCHANGED <<arg, lead, message, original_bit_length, chunks, w, regs,
                   ret, loaded, ncalls, count, log>>

\* line 142: the digest is read off the module-level H and returned
Return(t) ==
    /\ pc[t] = "serialize"
    /\ ret' = [ret EXCEPT ![t] = Returned(Join(H))]
    /\ pc' = [pc EXCEPT ![t] = "idle"]
    /\ loaded' = TRUE
    /\ log' = log \cup {<<[lead |-> arg[t].lead, data |-> EncodedData(arg[t])],
                          ret'[t]>>}
    /\ UNCHANGED <<H, arg, locals, ncalls, count, trail>>

Step(t) ==
    \/ PadZero(t)
    \/ AppendLength(t)
    \/ Overflow(t)
    \/ Split(t)
    \/ Schedule(t)
    \/ Seed(t)
    \/ Compress(t)
    \/ UpdateLane(t)
    \/ Return(t)

(***************************************************************************)
(* Callers                                                                 *)
(***************************************************************************)
\* lines 145-146: the call the module makes as it is loaded
Load ==
    /\ ~loaded
    /\ Call(1, HelloWorld)
    /\ UNCHANGED <<loaded, ncalls>>

\* the main thread calls sha256 again
CallAgain ==
    /\ loaded
    /\ ncalls[1] < MaxCalls
    /\ \E m \in Inputs : Call(1, m)
    /\ ncalls' = [ncalls EXCEPT ![1] = @ + 1]
    /\ UNCHANGED loaded

\* the main thread makes one call, of any length up to MaxLen
CallPad ==
    /\ loaded
    /\ ncalls[1] = 0
    /\ \E m \in PadInputs : Call(1, m)
    /\ ncalls' = [ncalls EXCEPT ![1] = @ + 1]
    /\ UNCHANGED loaded

\* each of two threads makes one call
CallThread(t) ==
    /\ loaded
    /\ ncalls[t] = 0
    /\ \E m \in ThreadInputs : Call(t, m)
    /\ ncalls' = [ncalls EXCEPT ![t] = @ + 1]
    /\ UNCHANGED loaded

\* one thread, call after call
Next == Load \/ CallAgain \/ Step(1)

Spec == Init /\ [][Next]_vars

\* the same, with the thread never stopping inside a call
FairSpec == Spec /\ WF_vars(Step(1))

\* one thread, one call of every length
NextPad == Load \/ CallPad \/ Step(1)

SpecPad == Init /\ [][NextPad]_vars

\* two threads, their steps interleaved in any order
NextThreads == Load \/ \E t \in Threads : CallThread(t) \/ Step(t)

SpecThreads == Init /\ [][NextThreads]_vars

(***************************************************************************)
(* Properties                                                              *)
(***************************************************************************)
\* the bytes of thread t's input
InputBytes(t) == EncodedData(arg[t])

\* the input's bit-length is below 2^64: it has at most four 16-bit limbs
Fits64(m) == Len(OriginalBitLength(m)) <= 4

HexChars == {HexDigit[i] : i \in 1..16}

\* C1: determinism across calls.  Any two completed calls on the same byte
\* sequence, the module's own call on "hello world" included, returned the
\* same thing.
C1_Determinism == \A e1 \in log : \A e2 \in log : e1[1] = e2[1] => e1[2] = e2[2]

\* what sha256 returns for each input of the two threads when it runs on its
\* own from the standard initial constants
AloneOnThreadInputs == [m \in ThreadInputs |-> RunAlone(m, H_initial)]

\* C2: state isolation under interleaving.  When the two threads run sha256 on
\* different inputs, their steps interleaved, each call returns what it returns
\* when run alone from the standard initial constants.
C2_StateIsolation ==
    (/\ \A t \in Threads : ncalls[t] = 1
     /\ arg[1] # arg[2])
    => \A t \in Threads :
          (pc[t] = "idle" /\ ret[t].outcome # "none") => ret[t] = AloneOnThreadInputs[arg[t]]

\* C3: the initial constants are never mutated in shared storage.  Between
\* calls the module-level H equals the eight standard initial values, and every
\* call seeds its first block's a..h from exactly those values.
C3_InitialConstantsKept ==
    /\ (\A t \in Threads : pc[t] = "idle") => H = H_initial
    /\ \A t \in Threads :
          (trail[t] # <<>> /\ trail[t][1].seed # <<>>) => trail[t][1].seed = H_initial

\* C4: the known vector.  sha256(b"abc"), called on the module as loaded,
\* returns ba7816bf...f20015ad.
C4_KnownVectorAbc ==
    \A t \in Threads :
        (loaded /\ pc[t] = "idle" /\ arg[t] = Abc /\ ret[t].outcome = "return")
        => AsString(ret[t].value)
               = "ba7816bf8f01cfea414140de5dae2223b00361a396177a9cb410ff61f20015ad"

\* C5: the padder's length guarantee.  Once the length is appended, the padded
\* message of an input of L bytes is a positive multiple of 64 bytes, longer
\* than L, and the smallest multiple of 64 that is at least L + 9; the zero
\* bytes appended are the least k >= 0 with (L + 1 + k) mod 64 = 56.  So 55
\* bytes pad to one block and 56 to two, 119 to two and 120 to three.
C5_PaddedLength ==
    \A t \in Threads :
        (pc[t] = "split" /\ lead[t] = <<>>) =>
            LET L == Len(InputBytes(t))
                P == Len(message[t])
                k == count[t].zeros
            IN  /\ P > 0 /\ P % 64 = 0 /\ P > L
                /\ P >= L + 9 /\ P - 64 < L + 9
                /\ k \in 0..63 /\ (L + 1 + k) % 64 = 56
                /\ P = L + 1 + k + 8
                /\ L = 55 => P = 64
                /\ L = 56 => P = 128
                /\ L = 119 => P = 128
                /\ L = 120 => P = 192

C5_Witness ==
    /\ pc[1] = "split" /\ lead[1] = <<>>
    /\ Len(InputBytes(1)) = 120 /\ Len(message[1]) = 192

\* C6: the padding layout.  Once the length is appended, the padded message of
\* an input M of L bytes starts with M unchanged, has 0x80 as byte L, ends with
\* the 8 bytes of L * 8 as a big-endian unsigned 64-bit integer, and is 0x00
\* everywhere between the marker and those 8 bytes.
C6_PaddingLayout ==
    \A t \in Threads :
        (pc[t] = "split" /\ lead[t] = <<>>) =>
            LET M == InputBytes(t)
                L == Len(M)
                P == message[t]
                field == SubSeq(P, Len(P) - 7, Len(P))
            IN  /\ Len(P) >= L + 9
                /\ SubSeq(P, 1, L) = M
                /\ P[L + 1] = 128
                /\ \A i \in (L + 2)..(Len(P) - 8) : P[i] = 0
                /\ Len(field) = 8
                /\ \A j \in 1..4 : field[j] = 0
                /\ \A j \in 5..8 : field[j] = ((L * 8) \div (256 ^ (8 - j))) % 256

C6_Witness ==
    /\ pc[1] = "split" /\ arg[1] = Fill(56, 128)
    /\ Len(message[1]) = 128 /\ message[1][127] = 1 /\ message[1][128] = 192

\* C7: overflow is an error, never truncation.  A call whose input's bit-length
\* does not fit in 64 bits never gets past the padding stage: no block of it is
\* scheduled or compressed, it returns no digest, and it ends raising
\* OverflowError.
C7_OverflowIsError ==
    \A t \in Threads :
        (arg[t] # NoInput /\ ~Fits64(arg[t])) =>
            /\ pc[t] \in {"pad", "idle"}
            /\ trail[t] = <<>> /\ count[t].blocks = 0 /\ count[t].rounds = 0
            /\ chunks[t] = <<>>
            /\ ret[t].outcome # "return"
            /\ pc[t] = "idle" => ret[t] = Raised("OverflowError")

C7_Witness ==
    /\ pc[1] = "idle" /\ arg[1] = Huge(3)
    /\ ret[1] = Raised("OverflowError") /\ count[1].zeros = 52

\* C8: fixed output length.  H always holds exactly 8 words, each in
\* 0..2^32-1, and whatever the input and the earlier calls, a returned digest
\* is exactly 64 characters, each a lowercase hexadecimal digit.
C8_FixedOutputLength ==
    /\ Len(H) = 8
    /\ \A i \in 1..Len(H) : H[i][1] \in 0..65535 /\ H[i][2] \in 0..65535
    /\ \A t \in Threads :
          ret[t].outcome = "return" =>
              /\ Len(ret[t].value) = 64
              /\ \A i \in 1..Len(ret[t].value) : ret[t].value[i] \in HexChars

C8_Witness ==
    /\ pc[1] = "idle" /\ ncalls[1] = 2
    /\ arg[1] = Bytes(<<>>) /\ ret[1].outcome = "return"

\* bytes 64(n-1)..64n-1 of a message
Block(msg, n) == SubSeq(msg, 64 * (n - 1) + 1, 64 * n)

\* C9: block chaining order.  Within one call, made while no other call is in
\* progress, the padded message is split into
\* 64-byte blocks that cover it without overlap or remainder; the blocks are
\* scheduled and compressed once each, in increasing offset order; each block
\* leaves H as the lane-wise sum mod 2^32 of its seed and its final a..h; and
\* the seed of block N + 1 is H as block N left it.
C9_BlockChaining ==
    \A t \in Threads :
        LET tr == trail[t]
        IN  /\ pc[t] \in {"schedule", "seed", "rounds", "update", "serialize"} =>
                  /\ Len(message[t]) = 64 * Len(chunks[t])
                  /\ \A n \in 1..Len(chunks[t]) : chunks[t][n] = Block(message[t], n)
                  /\ Len(tr) <= Len(chunks[t])
                  /\ Len(tr) = IF pc[t] = "schedule" THEN ci[t] - 1
                               ELSE IF pc[t] = "serialize" THEN Len(chunks[t])
                               ELSE ci[t]
            /\ \A n \in 1..Len(tr) :
                  /\ tr[n].chunk = Block(message[t], n)
                  /\ n < Len(tr) => tr[n].out # <<>>
                  /\ (n > 1 /\ tr[n].seed # <<>>) => tr[n].seed = tr[n - 1].out
                  /\ tr[n].out # <<>> =>
                        LET v == Rounds(tr[n].seed, MessageSchedule(tr[n].chunk))
                        IN  tr[n].out = [i \in 1..8 |-> LaneSum(tr[n].seed[i], v[i])]

C9_Witness ==
    /\ pc[1] = "serialize" /\ Len(trail[1]) = 2
    /\ trail[1][2].seed = trail[1][1].out /\ trail[1][2].out = H

\* the order of the stages of one call
Pipeline ==
    { <<"idle", "pad">>, <<"pad", "split">>, <<"pad", "idle">>, <<"split", "schedule">>,
      <<"schedule", "seed">>, <<"seed", "rounds">>, <<"rounds", "update">>,
      <<"update", "schedule">>, <<"update", "serialize">>, <<"serialize", "idle">> }

\* C10: totality.  A call on an input whose bit-length fits in 64 bits moves
\* through Pad, then Schedule and Compress per block, then Serialize, and
\* eventually returns a digest; the zero-padding loop runs at most 63 times,
\* the block loop len(padded) / 64 times with 48 schedule steps and 64 rounds
\* each, and a stage once left is entered again only for the next block.
C10_Termination ==
    /\ \A t \in Threads :
          (pc[t] # "idle" /\ Fits64(arg[t])) ~> (pc[t] = "idle" /\ ret[t].outcome = "return")
    /\ [](\A t \in Threads :
            /\ count[t].zeros <= 63
            /\ count[t].blocks <= Len(chunks[t])
            /\ pc[t] = "serialize" =>
                  /\ count[t].blocks = Len(message[t]) \div 64
                  /\ count[t].words = 48 * count[t].blocks
                  /\ count[t].rounds = 64 * count[t].blocks)
    /\ [][\A t \in Threads :
            /\ pc'[t] # pc[t] => <<pc[t], pc'[t]>> \in Pipeline
            /\ (pc[t] = "update" /\ pc'[t] = "schedule") => ci'[t] = ci[t] + 1
            /\ (pc[t] = "pad" /\ pc'[t] = "idle") => ~Fits64(arg[t])]_vars

C10_Witness ==
    /\ pc[1] = "idle" /\ ret[1].outcome = "return"
    /\ count[1].zeros = 63 /\ count[1].blocks = 2 /\ count[1].rounds = 128
====
